---- MODULE Spec2Model ----
(***************************************************************************)
(* Model of opentelemetry-stackdriver's GoogleTraceContextPropagator       *)
(* (src/opentelemetry-stackdriver/src/google_trace_context_propagator.rs). *)
(*                                                                         *)
(* Header values are TLA+ strings, read one character at a time.  A u64 or *)
(* u128 is a sequence of base-256 limbs, least significant limb first, so  *)
(* that the full width of the Rust integers is kept.                       *)
(***************************************************************************)
EXTENDS Integers, Sequences, FiniteSets, TLC

(* ------------------------------------------------------------------ *)
(* Characters and strings                                              *)
(* ------------------------------------------------------------------ *)

Char(s, i) == SubSeq(s, i, i)

DecDigits == {"0", "1", "2", "3", "4", "5", "6", "7", "8", "9"}
LowerHexDigits == DecDigits \cup {"a", "b", "c", "d", "e", "f"}
UpperHexDigits == DecDigits \cup {"A", "B", "C", "D", "E", "F"}

DigitValues ==
    [c \in LowerHexDigits \cup UpperHexDigits |->
        CASE c \in {"0"} -> 0 [] c \in {"1"} -> 1 [] c \in {"2"} -> 2 [] c \in {"3"} -> 3
          [] c \in {"4"} -> 4 [] c \in {"5"} -> 5 [] c \in {"6"} -> 6 [] c \in {"7"} -> 7
          [] c \in {"8"} -> 8 [] c \in {"9"} -> 9
          [] c \in {"a", "A"} -> 10 [] c \in {"b", "B"} -> 11 [] c \in {"c", "C"} -> 12
          [] c \in {"d", "D"} -> 13 [] c \in {"e", "E"} -> 14 [] c \in {"f", "F"} -> 15]

\* char::to_digit, as used by from_str_radix: the value of c in the radix, or -1.
ToDigit(c, radix) ==
    IF c \in DOMAIN DigitValues /\ DigitValues[c] < radix THEN DigitValues[c] ELSE -1

DigitChars == <<"0", "1", "2", "3", "4", "5", "6", "7", "8", "9", "a", "b", "c", "d", "e", "f">>

\* char::from_digit: the lowercase digit of d.
FromDigit(d) == DigitChars[d + 1]

IsWhitespace(c) == c \in {" ", "\t", "\n", "\r"}

RECURSIVE TrimStart(_)
TrimStart(s) ==
    IF Len(s) > 0 /\ IsWhitespace(Char(s, 1))
    THEN TrimStart(SubSeq(s, 2, Len(s)))
    ELSE s

RECURSIVE TrimEnd(_)
TrimEnd(s) ==
    IF Len(s) > 0 /\ IsWhitespace(Char(s, Len(s)))
    THEN TrimEnd(SubSeq(s, 1, Len(s) - 1))
    ELSE s

\* str::trim (line 46)
Trim(s) == TrimEnd(TrimStart(s))

RECURSIVE Repeat(_, _)
Repeat(c, n) == IF n <= 0 THEN "" ELSE c \o Repeat(c, n - 1)

(* ------------------------------------------------------------------ *)
(* Fixed-width unsigned integers                                       *)
(* ------------------------------------------------------------------ *)

U64_BYTES == 8
U128_BYTES == 16

Zero(n) == [i \in 1..n |-> 0]

IsZero(limbs) == \A i \in 1..Len(limbs) : limbs[i] = 0

\* limbs * mul + add, limb by limb from the least significant one; the result
\* keeps the width of limbs and carry is what did not fit.
RECURSIVE MulAddFrom(_, _, _, _)
MulAddFrom(limbs, mul, carry, i) ==
    IF i > Len(limbs)
    THEN [limbs |-> limbs, carry |-> carry]
    ELSE LET cur == limbs[i] * mul + carry
         IN  MulAddFrom([limbs EXCEPT ![i] = cur % 256], mul, cur \div 256, i + 1)

MulAdd(limbs, mul, add) == MulAddFrom(limbs, mul, add, 1)

\* limbs divided by d, from the most significant limb: quotient and remainder.
RECURSIVE DivModFrom(_, _, _, _)
DivModFrom(limbs, d, rem, i) ==
    IF i < 1
    THEN [limbs |-> limbs, rem |-> rem]
    ELSE LET cur == rem * 256 + limbs[i]
         IN  DivModFrom([limbs EXCEPT ![i] = cur \div d], d, cur % d, i - 1)

DivMod(limbs, d) == DivModFrom(limbs, d, 0, Len(limbs))

Reverse(seq) == [i \in 1..Len(seq) |-> seq[Len(seq) + 1 - i]]

\* u64::to_be_bytes (line 82) and u64::from_be_bytes (line 106)
ToBeBytes(limbs) == Reverse(limbs)
FromBeBytes(bytes) == Reverse(bytes)

\* The checked digit loop of from_str_radix: every digit must be valid and the
\* accumulated value must fit the width.
RECURSIVE ParseDigits(_, _, _, _)
ParseDigits(s, radix, acc, i) ==
    IF i > Len(s)
    THEN [ok |-> TRUE, limbs |-> acc]
    ELSE LET d == ToDigit(Char(s, i), radix)
         IN  IF d < 0
             THEN [ok |-> FALSE, limbs |-> acc]
             ELSE LET r == MulAdd(acc, radix, d)
                  IN  IF r.carry # 0
                      THEN [ok |-> FALSE, limbs |-> acc]
                      ELSE ParseDigits(s, radix, r.limbs, i + 1)

\* from_str_radix for an unsigned type of nbytes bytes: an empty string, a lone
\* sign, a '-' or any non-digit is an error, one leading '+' is accepted.
FromStrRadix(s, radix, nbytes) ==
    IF Len(s) = 0
    THEN [ok |-> FALSE, limbs |-> Zero(nbytes)]
    ELSE LET digits == IF Char(s, 1) = "+" THEN SubSeq(s, 2, Len(s)) ELSE s
         IN  IF Len(digits) = 0
             THEN [ok |-> FALSE, limbs |-> Zero(nbytes)]
             ELSE ParseDigits(digits, radix, Zero(nbytes), 1)

\* The digits of limbs in the radix, most significant first, "0" for zero.
RECURSIVE FormatRadix(_, _, _)
FormatRadix(limbs, radix, acc) ==
    LET r == DivMod(limbs, radix)
        out == FromDigit(r.rem) \o acc
    IN  IF IsZero(r.limbs) THEN out ELSE FormatRadix(r.limbs, radix, out)

\* Formatter padding: a width below the text's length adds nothing.
PadLeft(s, width, c) == Repeat(c, width - Len(s)) \o s

\* format!("{}") of an unsigned integer (lines 106, 107)
FormatDec(limbs) == FormatRadix(limbs, 10, "")

\* format!("{:x}"): the hex digits without the zero padding
FormatHex_Unpadded(limbs) == FormatRadix(limbs, 16, "")

\* format!("{:032x}") of a TraceId (line 104)
FormatHex032(limbs) == PadLeft(FormatRadix(limbs, 16, ""), 32, "0")

(* ------------------------------------------------------------------ *)
(* Option and Result values                                            *)
(* ------------------------------------------------------------------ *)

None == [some |-> FALSE]
Some(v) == [some |-> TRUE, v |-> v]

\* Err(()) carries nothing in the code; `at` records which early return produced it.
Err(at) == [ok |-> FALSE, at |-> at]
Ok(sc) == [ok |-> TRUE, sc |-> sc]

(* ------------------------------------------------------------------ *)
(* The header name and the grammar of its value                        *)
(* ------------------------------------------------------------------ *)

CLOUD_TRACE_CONTEXT_HEADER == "X-Cloud-Trace-Context"

TRACE_ID_LEN == 32
SPAN_ID_MIN_LEN == 1
SPAN_ID_MAX_LEN == 20

\* The pattern without its closing $
Regex_NoEndAnchor ==
    << [kind |-> "start"],
       [kind |-> "class", chars |-> LowerHexDigits, min |-> TRACE_ID_LEN,
        max |-> TRACE_ID_LEN, name |-> "trace_id"],
       [kind |-> "lit", text |-> "/"],
       [kind |-> "class", chars |-> DecDigits, min |-> SPAN_ID_MIN_LEN,
        max |-> SPAN_ID_MAX_LEN, name |-> "span_id"],
       [kind |-> "opt",
        body |-> << [kind |-> "lit", text |-> ";o="],
                    [kind |-> "class", chars |-> DecDigits, min |-> 1, max |-> 1,
                     name |-> "trace_flags"] >>] >>

\* ^(?P<trace_id>[0-9a-f]{32})/(?P<span_id>[0-9]{1,20})(;o=(?P<trace_flags>[0-9]))?$
GOOGLE_PROPAGATION_HEADER_VALUE_REGEX_STR ==
    << [kind |-> "start"],
       [kind |-> "class", chars |-> LowerHexDigits, min |-> TRACE_ID_LEN,
        max |-> TRACE_ID_LEN, name |-> "trace_id"],
       [kind |-> "lit", text |-> "/"],
       [kind |-> "class", chars |-> DecDigits, min |-> SPAN_ID_MIN_LEN,
        max |-> SPAN_ID_MAX_LEN, name |-> "span_id"],
       [kind |-> "opt",
        body |-> << [kind |-> "lit", text |-> ";o="],
                    [kind |-> "class", chars |-> DecDigits, min |-> 1, max |-> 1,
                     name |-> "trace_flags"] >>],
       [kind |-> "end"] >>

\* Regex::new(..).ok(): the pattern compiles (test at lines 132-149).
RegexNew(pattern) == Some(pattern)

NoCaps == [trace_id |-> None, span_id |-> None, trace_flags |-> None]

AllIn(s, from, to, chars) == \A j \in from..to : Char(s, j) \in chars

\* The matches of items against s from pos, as [pos, caps] in the order of the
\* regex crate's preference: a repetition takes as many characters as it can
\* first, an optional group is tried before it is skipped.
RECURSIVE MatchItems(_, _, _, _)
RECURSIVE MatchClass(_, _, _, _, _, _)
RECURSIVE MatchEach(_, _, _)

MatchItems(items, s, pos, caps) ==
    IF Len(items) = 0
    THEN << [pos |-> pos, caps |-> caps] >>
    ELSE LET it == Head(items)
             rest == Tail(items)
         IN  CASE it.kind = "start" ->
                    IF pos = 1 THEN MatchItems(rest, s, pos, caps) ELSE << >>
               [] it.kind = "end" ->
                    IF pos = Len(s) + 1 THEN MatchItems(rest, s, pos, caps) ELSE << >>
               [] it.kind = "lit" ->
                    IF /\ pos + Len(it.text) - 1 <= Len(s)
                       /\ SubSeq(s, pos, pos + Len(it.text) - 1) = it.text
                    THEN MatchItems(rest, s, pos + Len(it.text), caps)
                    ELSE << >>
               [] it.kind = "class" ->
                    MatchClass(it, rest, s, pos, caps, it.max)
               [] it.kind = "opt" ->
                    MatchEach(MatchItems(it.body, s, pos, caps), rest, s)
                        \o MatchItems(rest, s, pos, caps)

MatchClass(it, rest, s, pos, caps, k) ==
    IF k < it.min
    THEN << >>
    ELSE (IF pos + k - 1 <= Len(s) /\ AllIn(s, pos, pos + k - 1, it.chars)
          THEN MatchItems(rest, s, pos + k,
                          [caps EXCEPT ![it.name] = Some(SubSeq(s, pos, pos + k - 1))])
          ELSE << >>)
         \o MatchClass(it, rest, s, pos, caps, k - 1)

MatchEach(ms, rest, s) ==
    IF Len(ms) = 0
    THEN << >>
    ELSE MatchItems(rest, s, Head(ms).pos, Head(ms).caps) \o MatchEach(Tail(ms), rest, s)

\* Regex::captures (line 53): the leftmost match of the pattern in s, if any.
RECURSIVE CapturesFrom(_, _, _)
CapturesFrom(regex, s, start) ==
    IF start > Len(s) + 1
    THEN None
    ELSE LET ms == MatchItems(regex, s, start, NoCaps)
         IN  IF Len(ms) > 0 THEN Some(Head(ms).caps) ELSE CapturesFrom(regex, s, start + 1)

Captures(regex, s) == CapturesFrom(regex, s, 1)

(* ------------------------------------------------------------------ *)
(* The trace-context object model                                      *)
(* ------------------------------------------------------------------ *)

SAMPLED == 1
NOT_SAMPLED == 0

\* TraceFlags::is_sampled: the lowest bit of the flag byte.
IsSampled(flags) == flags % 2 = 1

\* SpanContext::new (line 85): trace_id is a u128, span_id its 8 big-endian bytes.
SpanContextNew(trace_id, span_id, trace_flags, is_remote) ==
    [trace_id |-> trace_id, span_id |-> span_id, trace_flags |-> trace_flags,
     is_remote |-> is_remote]

\* SpanContext::is_valid (lines 88, 101): both identifiers are non-zero.
IsValid(sc) == ~IsZero(sc.trace_id) /\ ~IsZero(sc.span_id)

\* The span context of a context that holds no span.
NONE_SPAN_CONTEXT == SpanContextNew(Zero(U128_BYTES), Zero(U64_BYTES), NOT_SAMPLED, FALSE)

\* cx.span().span_context() (lines 98-99)
SpanContextOf(cx) == IF cx.has_span THEN cx.sc ELSE NONE_SPAN_CONTEXT

\* cx.with_remote_span_context(sc) (line 115): the other entries of cx are kept.
WithRemoteSpanContext(cx, sc) == [cx EXCEPT !.has_span = TRUE, !.sc = sc]

(* ------------------------------------------------------------------ *)
(* The carrier                                                         *)
(* ------------------------------------------------------------------ *)

OTHER_HEADER == "traceparent"
HeaderNames == {CLOUD_TRACE_CONTEXT_HEADER, OTHER_HEADER}

\* Extractor::get (line 45) and Injector::set (line 109)
Get(carrier, name) == carrier[name]
Set(carrier, name, value) == [carrier EXCEPT ![name] = Some(value)]

(* ------------------------------------------------------------------ *)
(* GoogleTraceContextPropagator                                        *)
(* ------------------------------------------------------------------ *)

\* TraceId::from_hex (line 78)
TraceIdFromHex(hex) == FromStrRadix(hex, 16, U128_BYTES)

\* A decimal parse that wraps modulo 2^64 instead of failing on overflow
RECURSIVE WrappingDigits(_, _, _)
WrappingDigits(s, acc, i) ==
    IF i > Len(s)
    THEN [ok |-> TRUE, limbs |-> acc]
    ELSE LET d == ToDigit(Char(s, i), 10)
         IN  IF d < 0
             THEN [ok |-> FALSE, limbs |-> acc]
             ELSE WrappingDigits(s, MulAdd(acc, 10, d).limbs, i + 1)

ParseU64_Wrapping(dec) ==
    IF Len(dec) = 0
    THEN [ok |-> FALSE, limbs |-> Zero(U64_BYTES)]
    ELSE WrappingDigits(dec, Zero(U64_BYTES), 1)

\* span_id_dec.parse::<u64>() (lines 80-81)
ParseU64(dec) == FromStrRadix(dec, 10, U64_BYTES)

\* construct_span_context without the is_valid check of lines 88-90
construct_span_context_Unchecked(trace_flags, trace_id_hex, span_id_dec) ==
    LET trace_id == TraceIdFromHex(trace_id_hex)
        parsed == ParseU64(span_id_dec)
    IN  IF ~trace_id.ok
        THEN Err("trace_id")
        ELSE IF ~parsed.ok
             THEN Err("span_id")
             ELSE Ok(SpanContextNew(trace_id.limbs, ToBeBytes(parsed.limbs),
                                    trace_flags, TRUE))

construct_span_context(trace_flags, trace_id_hex, span_id_dec) ==
    LET trace_id == TraceIdFromHex(trace_id_hex)
        parsed == ParseU64(span_id_dec)
    IN  IF ~trace_id.ok
        THEN Err("trace_id")
        ELSE IF ~parsed.ok
             THEN Err("span_id")
             ELSE LET span_context == SpanContextNew(trace_id.limbs,
                                                     ToBeBytes(parsed.limbs),
                                                     trace_flags, TRUE)
                  IN  IF ~IsValid(span_context)
                      THEN Err("is_valid")
                      ELSE Ok(span_context)

\* The flag read as sampled only when it is "1"
TraceFlagsOf_OnlyOne(group) ==
    IF ~group.some
    THEN SAMPLED
    ELSE IF group.v = "1" THEN SAMPLED ELSE NOT_SAMPLED

\* lines 61-68: sampled unless the flag group is present and is "0"
TraceFlagsOf(group) ==
    IF ~group.some
    THEN SAMPLED
    ELSE IF group.v = "0" THEN NOT_SAMPLED ELSE SAMPLED

\* lines 53-70, once the header value and the pattern are at hand
MatchAndConstruct(regex, header_value) ==
    LET caps == Captures(regex, header_value)
    IN  IF ~caps.some
        THEN Err("captures")
        ELSE IF ~caps.v.trace_id.some
             THEN Err("trace_id_group")
             ELSE IF ~caps.v.span_id.some
                  THEN Err("span_id_group")
                  ELSE construct_span_context(TraceFlagsOf(caps.v.trace_flags),
                                              caps.v.trace_id.v, caps.v.span_id.v)

\* lines 44-47: the trimmed header value, or nothing
HeaderValueOf(carrier) ==
    LET v == Get(carrier, CLOUD_TRACE_CONTEXT_HEADER)
    IN  IF v.some THEN Some(Trim(v.v)) ELSE None

\* extract_span_context, given the value the Lazy pattern dereferences to
extract_span_context(carrier, regex) ==
    LET header_value == HeaderValueOf(carrier)
    IN  IF ~header_value.some
        THEN Err("header")
        ELSE IF ~regex.some
             THEN Err("regex")
             ELSE MatchAndConstruct(regex.v, header_value.v)

\* lines 102-108
FormatHeaderValue(span_context, sampled_flag) ==
    FormatHex032(span_context.trace_id) \o "/"
        \o FormatDec(FromBeBytes(span_context.span_id)) \o ";o="
        \o FormatDec(<<sampled_flag>>)

\* inject_context without the is_valid gate of line 101
inject_context_Ungated(cx, carrier) ==
    Set(carrier, CLOUD_TRACE_CONTEXT_HEADER,
        FormatHeaderValue(SpanContextOf(cx), SpanContextOf(cx).trace_flags))

\* inject_context: the carrier after the call
inject_context(cx, carrier) ==
    LET span_context == SpanContextOf(cx)
        sampled_flag == span_context.trace_flags
    IN  IF IsValid(span_context)
        THEN Set(carrier, CLOUD_TRACE_CONTEXT_HEADER,
                 FormatHeaderValue(span_context, sampled_flag))
        ELSE carrier

\* extract_with_context falling back to a fresh context instead of cx.clone()
ContextFrom_FreshOnError(cx, result) ==
    IF result.ok
    THEN WithRemoteSpanContext(cx, result.sc)
    ELSE [has_span |-> FALSE, sc |-> NONE_SPAN_CONTEXT, baggage |-> ""]

\* extract_with_context, from the result of extract_span_context
ContextFrom(cx, result) ==
    IF result.ok THEN WithRemoteSpanContext(cx, result.sc) ELSE cx

extract_with_context(cx, carrier, regex) ==
    ContextFrom(cx, extract_span_context(carrier, regex))

(* ------------------------------------------------------------------ *)
(* Inputs                                                              *)
(* ------------------------------------------------------------------ *)

\* The longest sequence of calls of one run.
MaxCalls == 4
\* The threads of the concurrent specification.
NumThreads == 2

BaseTrace == "105445aa7843bc8bf206b12000100000"
ZeroTrace == "00000000000000000000000000000000"

TraceIdTexts ==
    { BaseTrace, ZeroTrace,
      "00000000000000000000000000000001",
      "ffffffffffffffffffffffffffffffff",
      "0a000000000000000000000000000000",
      "105445AA7843BC8BF206B12000100000",
      "105445aa7843bc8b",
      "105445aa7843bc8bf206b1200010000",
      "105445aa7843bc8bf206b120001000000",
      "105445aa7843bc8bf206b1200010000g" }

SpanIdTexts ==
    { "1", "0", "000", "007", "258", "72057594037927936",
      "18446744073709551615", "18446744073709551616", "18446744073709551617",
      "99999999999999999999", "00000000000000000001", "00000000000000000000",
      "100000000000000000000", "000000000000000000001",
      "1abc", "", "+1", "-1", "0x1" }

FlagTexts ==
    { "", ";o=0", ";o=1", ";o=2", ";o=3", ";o=4", ";o=5", ";o=6", ";o=7", ";o=8",
      ";o=9", ";o=", ";o=10", ";o=1x", ";O=1", ";o=a", "o=1", ";o=1;o=0", ";o=1 ;" }

Wrappings ==
    { <<" ", "">>, <<"", "\n">>, <<" \t", " \r\n">> }

HeaderValues ==
    { t \o "/1" \o o : t \in TraceIdTexts, o \in {"", ";o=0"} }
    \cup { BaseTrace \o "/" \o sp \o o : sp \in SpanIdTexts, o \in {"", ";o=0", ";o=7"} }
    \cup { BaseTrace \o "/" \o sp \o o : sp \in {"1", "007"}, o \in FlagTexts }
    \cup { w[1] \o v \o w[2] :
             w \in Wrappings,
             v \in { BaseTrace \o "/1;o=1", BaseTrace \o "/007", BaseTrace \o "/1;o=0",
                     ZeroTrace \o "/1", BaseTrace \o "/1;o=1x", "" } }
    \cup { "", "/", BaseTrace, BaseTrace \o "/", BaseTrace \o "//1", BaseTrace \o "1",
           BaseTrace \o "/1/2", "x" \o BaseTrace \o "/1", BaseTrace \o " /1",
           BaseTrace \o "/ 1", BaseTrace \o "/1 ;o=1", BaseTrace \o "/1;o=1\nx",
           "00000000000000000000000000000001/00000000000000000001;o=9",
           ZeroTrace \o "/0", ZeroTrace \o "/18446744073709551616" }

\* u128 values, least significant limb first
TraceIds ==
    { Zero(U128_BYTES),
      [i \in 1..U128_BYTES |-> 255],
      [i \in 1..U128_BYTES |-> IF i = 1 THEN 1 ELSE 0],
      \* 0x105445aa7843bc8bf206b12000100000
      Reverse(<<16, 84, 69, 170, 120, 67, 188, 139, 242, 6, 177, 32, 0, 16, 0, 0>>) }

\* span ids, 8 big-endian bytes
SpanIds ==
    { Zero(U64_BYTES),
      <<0, 0, 0, 0, 0, 0, 0, 1>>,
      <<0, 0, 0, 0, 0, 0, 1, 2>>,
      [i \in 1..U64_BYTES |-> 255] }

TraceFlagValues == {0, 1, 2, 3, 9, 10, 128, 255}

SpanContexts ==
    { SpanContextNew(t, sp, f, FALSE) : t \in TraceIds, sp \in SpanIds, f \in TraceFlagValues }

NoSpanContext(tag) == [has_span |-> FALSE, sc |-> NONE_SPAN_CONTEXT, baggage |-> tag]
ContextWithSpan(sc, tag) == [has_span |-> TRUE, sc |-> sc, baggage |-> tag]

LocalSpanContext ==
    SpanContextNew([i \in 1..U128_BYTES |-> 255], <<0, 0, 0, 0, 0, 0, 1, 2>>, SAMPLED, FALSE)

OtherValue == "00-0af7651916cd43dd8448eb211c80319c-b7ad6b7169203331-01"

CarrierOf(header) ==
    [n \in HeaderNames |-> IF n = CLOUD_TRACE_CONTEXT_HEADER THEN header ELSE Some(OtherValue)]

EmptyCarrier == [n \in HeaderNames |-> None]

\* The carrier and the context a run starts from.
Scenarios ==
    { [carrier |-> CarrierOf(Some(h)), cx |-> NoSpanContext("a")] : h \in HeaderValues }
    \cup { [carrier |-> CarrierOf(h), cx |-> ContextWithSpan(LocalSpanContext, "b")] :
             h \in { None, Some(BaseTrace \o "/1;o=0"), Some("105445aa7843bc8b/1;o=1"),
                     Some(BaseTrace \o "/0"), Some(BaseTrace \o "/18446744073709551616") } }
    \cup { [carrier |-> EmptyCarrier, cx |-> ContextWithSpan(sc, "c")] :
             sc \in SpanContexts }
    \cup { [carrier |-> CarrierOf(Some(BaseTrace \o "/5;o=0")), cx |-> ContextWithSpan(sc, "c")] :
             sc \in { c \in SpanContexts : c.trace_flags = SAMPLED } }
    \cup { [carrier |-> CarrierOf(h), cx |-> NoSpanContext("d")] :
             h \in { None, Some(BaseTrace \o "/5;o=0") } }

(* ------------------------------------------------------------------ *)
(* State                                                               *)
(* ------------------------------------------------------------------ *)

VARIABLES
    carrier,     \* the carrier the propagator reads and writes
    cx,          \* the context the caller holds
    regex_cell,  \* the static GOOGLE_PROPAGATION_HEADER_VALUE_REGEX
    inits,       \* how many times the initializer of regex_cell has run
    hist,        \* the calls made so far, each with its arguments
    th           \* the threads of the concurrent specification

vars == <<carrier, cx, regex_cell, inits, hist, th>>

Threads == 1..NumThreads

\* static GOOGLE_PROPAGATION_HEADER_VALUE_REGEX before its first use
LazyNew == [state |-> "incomplete", value |-> None]

\* Lazy::new's closure (line 35)
LazyInitValue == RegexNew(GOOGLE_PROPAGATION_HEADER_VALUE_REGEX_STR)

\* Dereferencing the Lazy from a single thread (line 49)
LazyForce(cell) ==
    IF cell.state = "complete"
    THEN cell
    ELSE [state |-> "complete", value |-> Some(LazyInitValue)]

IdleThread ==
    [pc |-> "idle", op |-> "none", carrier |-> CarrierOf(None), cx |-> NoSpanContext("t"),
     seen |-> None, ret_cx |-> NoSpanContext("t"), ret_carrier |-> CarrierOf(None)]

Init ==
    /\ \E sc \in Scenarios : carrier = sc.carrier /\ cx = sc.cx
    /\ regex_cell = LazyNew
    /\ inits = 0
    /\ hist = << >>
    /\ th = [t \in Threads |-> IdleThread]

Call(op, result) == [op |-> op, cx_in |-> cx, carrier_in |-> carrier, result |-> result]

\* propagator.inject_context(&cx, &mut carrier)
InjectContext ==
    /\ Len(hist) < MaxCalls
    /\ carrier' = inject_context(cx, carrier)
    /\ hist' = Append(hist, Call("inject", Err("not_called")))
    /\ UNCHANGED <<cx, regex_cell, inits, th>>

\* cx = propagator.extract_with_context(&cx, &carrier); the pattern is compiled
\* on the first call that gets as far as line 49.
ExtractWithContext ==
    /\ Len(hist) < MaxCalls
    /\ LET reaches == HeaderValueOf(carrier).some
           cell == IF reaches THEN LazyForce(regex_cell) ELSE regex_cell
           regex == IF cell.value.some THEN cell.value.v ELSE None
           result == extract_span_context(carrier, regex)
       IN  /\ regex_cell' = cell
           /\ inits' = IF cell # regex_cell THEN inits + 1 ELSE inits
           /\ cx' = ContextFrom(cx, result)
           /\ hist' = Append(hist, Call("extract", result))
    /\ UNCHANGED <<carrier, th>>

Next == InjectContext \/ ExtractWithContext

Spec == Init /\ [][Next]_vars

(* ------------------------------------------------------------------ *)
(* Calls from several threads                                          *)
(* ------------------------------------------------------------------ *)

\* The calls a thread may make, each on a carrier and a context of its own.
ThreadCalls ==
    { [op |-> "extract", carrier |-> CarrierOf(h), cx |-> NoSpanContext("t")] :
        h \in { None, Some(BaseTrace \o "/1;o=0"), Some("105445aa7843bc8b/1;o=1") } }
    \cup { [op |-> "inject", carrier |-> EmptyCarrier, cx |-> c] :
             c \in { ContextWithSpan(LocalSpanContext, "t"), NoSpanContext("t") } }

InitThreads ==
    /\ carrier = EmptyCarrier
    /\ cx = NoSpanContext("t")
    /\ regex_cell = LazyNew
    /\ inits = 0
    /\ hist = << >>
    /\ th = [t \in Threads |-> IdleThread]

\* once_cell's Lazy: the value may be read once the state is complete
LazyIsComplete(cell) == cell.state = "complete"

\* A thread that finds the cell racing with another initializer starts its own
LazyCanStart_Racy(cell) == cell.state # "complete"

\* once_cell's Lazy: only the thread that finds the cell incomplete initializes it
LazyCanStart(cell) == cell.state = "incomplete"

ThreadCall(t) ==
    /\ th[t].pc = "idle"
    /\ \E call \in ThreadCalls :
          th' = [th EXCEPT ![t] =
                    [IdleThread EXCEPT !.pc = IF call.op = "extract" THEN "get_header"
                                              ELSE "inject",
                                       !.op = call.op,
                                       !.carrier = call.carrier,
                                       !.cx = call.cx]]
    /\ UNCHANGED <<carrier, cx, regex_cell, inits, hist>>

\* inject_context touches no shared state
ThreadInject(t) ==
    /\ th[t].pc = "inject"
    /\ th' = [th EXCEPT ![t].ret_carrier = inject_context(th[t].cx, th[t].carrier),
                        ![t].pc = "done"]
    /\ UNCHANGED <<carrier, cx, regex_cell, inits, hist>>

\* lines 44-47: a missing header returns before the pattern is touched
ThreadGetHeader(t) ==
    /\ th[t].pc = "get_header"
    /\ th' = IF HeaderValueOf(th[t].carrier).some
             THEN [th EXCEPT ![t].pc = "lazy_load"]
             ELSE [th EXCEPT ![t].ret_cx = ContextFrom(th[t].cx, Err("header")),
                             ![t].pc = "done"]
    /\ UNCHANGED <<carrier, cx, regex_cell, inits, hist>>

\* line 49, the fast path of the Lazy's deref
ThreadLazyLoad(t) ==
    /\ th[t].pc = "lazy_load"
    /\ th' = IF LazyIsComplete(regex_cell)
             THEN [th EXCEPT ![t].seen = regex_cell.value, ![t].pc = "match"]
             ELSE [th EXCEPT ![t].pc = "lazy_init"]
    /\ UNCHANGED <<carrier, cx, regex_cell, inits, hist>>

\* line 49, the slow path: one thread claims the initialization, the others wait
ThreadLazyInit(t) ==
    /\ th[t].pc = "lazy_init"
    /\ IF LazyCanStart(regex_cell)
       THEN /\ regex_cell' = [regex_cell EXCEPT !.state = "running"]
            /\ th' = [th EXCEPT ![t].pc = "lazy_run"]
       ELSE /\ regex_cell' = regex_cell
            /\ th' = [th EXCEPT ![t].pc = "lazy_wait"]
    /\ UNCHANGED <<carrier, cx, inits, hist>>

\* line 35: the initializer runs and stores the compiled pattern
ThreadLazyRun(t) ==
    /\ th[t].pc = "lazy_run"
    /\ regex_cell' = [state |-> "running", value |-> Some(LazyInitValue)]
    /\ inits' = inits + 1
    /\ th' = [th EXCEPT ![t].pc = "lazy_publish"]
    /\ UNCHANGED <<carrier, cx, hist>>

\* the cell is marked complete and the initializing thread reads it
ThreadLazyPublish(t) ==
    /\ th[t].pc = "lazy_publish"
    /\ regex_cell' = [regex_cell EXCEPT !.state = "complete"]
    /\ th' = [th EXCEPT ![t].seen = regex_cell.value, ![t].pc = "match"]
    /\ UNCHANGED <<carrier, cx, inits, hist>>

\* a waiting thread goes on once the cell is complete
ThreadLazyWait(t) ==
    /\ th[t].pc = "lazy_wait"
    /\ LazyIsComplete(regex_cell)
    /\ th' = [th EXCEPT ![t].seen = regex_cell.value, ![t].pc = "match"]
    /\ UNCHANGED <<carrier, cx, regex_cell, inits, hist>>

\* lines 49-70 and 115-116, with the pattern the thread read
ThreadMatch(t) ==
    /\ th[t].pc = "match"
    /\ LET regex == IF th[t].seen.some THEN th[t].seen.v ELSE None
       IN  th' = [th EXCEPT ![t].ret_cx = extract_with_context(th[t].cx, th[t].carrier, regex),
                            ![t].pc = "done"]
    /\ UNCHANGED <<carrier, cx, regex_cell, inits, hist>>

ThreadReturn(t) ==
    /\ th[t].pc = "done"
    /\ th' = [th EXCEPT ![t] = IdleThread]
    /\ UNCHANGED <<carrier, cx, regex_cell, inits, hist>>

NextThreads ==
    \E t \in Threads :
        \/ ThreadCall(t)
        \/ ThreadInject(t)
        \/ ThreadGetHeader(t)
        \/ ThreadLazyLoad(t)
        \/ ThreadLazyInit(t)
        \/ ThreadLazyRun(t)
        \/ ThreadLazyPublish(t)
        \/ ThreadLazyWait(t)
        \/ ThreadMatch(t)
        \/ ThreadReturn(t)

SpecThreads == InitThreads /\ [][NextThreads]_vars

(* ------------------------------------------------------------------ *)
(* The properties                                                      *)
(* ------------------------------------------------------------------ *)

Calls == Len(hist)
Last == hist[Calls]
LastIs(op) == Calls > 0 /\ Last.op = op

\* The header value a call found in its carrier, trimmed; "" when there was none.
TrimmedHeader(call) ==
    IF call.carrier_in[CLOUD_TRACE_CONTEXT_HEADER].some
    THEN Trim(call.carrier_in[CLOUD_TRACE_CONTEXT_HEADER].v)
    ELSE ""

EndsWith(s, suffix) ==
    Len(s) >= Len(suffix) /\ SubSeq(s, Len(s) - Len(suffix) + 1, Len(s)) = suffix

OnlyChars(s, chars) == \A j \in 1..Len(s) : Char(s, j) \in chars

\* The grammar of the header value as section 4.1 of the specification words it.
InGrammar(v) ==
    \E n \in 1..20, f \in {0, 1} :
        /\ Len(v) = 32 + 1 + n + 4 * f
        /\ OnlyChars(SubSeq(v, 1, 32), LowerHexDigits)
        /\ Char(v, 33) = "/"
        /\ OnlyChars(SubSeq(v, 34, 33 + n), DecDigits)
        /\ f = 1 => /\ SubSeq(v, 34 + n, 36 + n) = ";o="
                    /\ Char(v, 37 + n) \in DecDigits

HasFlag(v) == Len(v) >= 38 /\ SubSeq(v, Len(v) - 3, Len(v) - 1) = ";o="
TraceText(v) == SubSeq(v, 1, 32)
SpanText(v) == SubSeq(v, 34, IF HasFlag(v) THEN Len(v) - 4 ELSE Len(v))

RECURSIVE StripZeros(_)
StripZeros(d) ==
    IF Len(d) > 1 /\ Char(d, 1) = "0" THEN StripZeros(SubSeq(d, 2, Len(d))) ELSE d

\* a > b for two digit strings of the same length
DecGreater(a, b) ==
    \E i \in 1..Len(a) :
        /\ SubSeq(a, 1, i - 1) = SubSeq(b, 1, i - 1)
        /\ DigitValues[Char(a, i)] > DigitValues[Char(b, i)]

U64MaxText == "18446744073709551615"

ExceedsU64(d) ==
    LET t == StripZeros(d)
    IN  \/ Len(t) > Len(U64MaxText)
        \/ Len(t) = Len(U64MaxText) /\ DecGreater(t, U64MaxText)

\* The two lowercase hex digits of each byte, most significant byte first.
RECURSIVE HexOfBytes(_)
HexOfBytes(bytes) ==
    IF Len(bytes) = 0
    THEN ""
    ELSE DigitChars[(Head(bytes) \div 16) + 1] \o DigitChars[(Head(bytes) % 16) + 1]
            \o HexOfBytes(Tail(bytes))

\* C3: inject_context with a context whose trace id or span id is all-zero
\* leaves the carrier exactly as it was: nothing is added under
\* X-Cloud-Trace-Context, and an entry already there is neither changed nor removed.
C3_InvalidInjectLeavesCarrier ==
    ( /\ LastIs("inject")
      /\ \/ IsZero(SpanContextOf(Last.cx_in).trace_id)
         \/ IsZero(SpanContextOf(Last.cx_in).span_id) )
    => carrier = Last.carrier_in

C3_Witness ==
    /\ LastIs("inject")
    /\ Last.cx_in.has_span
    /\ ~IsZero(Last.cx_in.sc.trace_id)
    /\ IsZero(Last.cx_in.sc.span_id)
    /\ Last.carrier_in[CLOUD_TRACE_CONTEXT_HEADER].some
    /\ carrier[CLOUD_TRACE_CONTEXT_HEADER] = Some(BaseTrace \o "/5;o=0")

\* C4: when decoding fails, extract_with_context returns the ambient context
\* unchanged; it attaches a remote span context only when decoding succeeds,
\* and then keeps the other entries of the ambient context.
C4_FailedExtractKeepsContext ==
    LastIs("extract") =>
        /\ carrier = Last.carrier_in
        /\ Last.result.ok =>
              /\ cx.has_span /\ cx.sc = Last.result.sc /\ cx.sc.is_remote
              /\ cx.baggage = Last.cx_in.baggage
        /\ ~Last.result.ok => cx = Last.cx_in

C4_Witness ==
    /\ LastIs("extract")
    /\ ~Last.result.ok
    /\ Last.result.at = "span_id"
    /\ Last.cx_in.has_span
    /\ cx.sc = LocalSpanContext

\* C5: a header value that decodes is not-sampled exactly when it ends in
\* ";o=0"; without a flag, or with a flag digit 1 to 9, it is sampled.
C5_SampledUnlessFlagZero ==
    (LastIs("extract") /\ Last.result.ok) =>
        /\ Last.result.sc.trace_flags \in {SAMPLED, NOT_SAMPLED}
        /\ ~IsSampled(Last.result.sc.trace_flags) <=> EndsWith(TrimmedHeader(Last), ";o=0")

C5_Witness ==
    /\ LastIs("extract")
    /\ Last.result.ok
    /\ EndsWith(TrimmedHeader(Last), ";o=7")
    /\ IsSampled(Last.result.sc.trace_flags)

\* C6: extract_span_context never returns a zero identifier: a header in the
\* grammar whose trace id is 32 zeros or whose span id has the value 0 is an error.
C6_NoZeroIdentifier ==
    LastIs("extract") =>
        /\ Last.result.ok =>
              /\ \E i \in 1..Len(Last.result.sc.trace_id) : Last.result.sc.trace_id[i] # 0
              /\ \E i \in 1..Len(Last.result.sc.span_id) : Last.result.sc.span_id[i] # 0
        /\ ( /\ InGrammar(TrimmedHeader(Last))
             /\ \/ OnlyChars(TraceText(TrimmedHeader(Last)), {"0"})
                \/ OnlyChars(SpanText(TrimmedHeader(Last)), {"0"}) )
           => ~Last.result.ok

C6_Witness ==
    /\ LastIs("extract")
    /\ InGrammar(TrimmedHeader(Last))
    /\ SpanText(TrimmedHeader(Last)) = "000"
    /\ ~Last.result.ok

\* C7: extract_span_context succeeds only on a header value that, once trimmed,
\* is in the grammar in full; otherwise the result is an error that carries no
\* context, and none reaches the caller.
C7_OnlyGrammarDecodes ==
    LastIs("extract") =>
        /\ Last.result.ok => InGrammar(TrimmedHeader(Last))
        /\ ~InGrammar(TrimmedHeader(Last)) =>
              /\ DOMAIN Last.result = {"ok", "at"}
              /\ ~Last.result.ok
              /\ cx = Last.cx_in

C7_Witness ==
    /\ LastIs("extract")
    /\ TrimmedHeader(Last) = BaseTrace \o "/1;o=1x"
    /\ ~Last.result.ok

\* C8: a span id in the grammar above 2^64 - 1 fails at the span-id parse and is
\* never wrapped; a span id from 1 to 2^64 - 1 (with a non-zero trace id) is
\* accepted and stored as that value in 8 big-endian bytes.
C8_SpanIdRange ==
    (LastIs("extract") /\ InGrammar(TrimmedHeader(Last))) =>
        LET d == SpanText(TrimmedHeader(Last))
        IN  /\ ExceedsU64(d) => Last.result = Err("span_id")
            /\ ( /\ ~ExceedsU64(d)
                 /\ ~OnlyChars(d, {"0"})
                 /\ ~OnlyChars(TraceText(TrimmedHeader(Last)), {"0"}) )
               => /\ Last.result.ok
                  /\ Len(Last.result.sc.span_id) = 8
                  /\ FormatDec(Reverse(Last.result.sc.span_id)) = StripZeros(d)
                  /\ d = "258" => Last.result.sc.span_id = <<0, 0, 0, 0, 0, 0, 1, 2>>
                  /\ d = "72057594037927936" =>
                        Last.result.sc.span_id = <<1, 0, 0, 0, 0, 0, 0, 0>>
                  /\ d = U64MaxText =>
                        Last.result.sc.span_id = <<255, 255, 255, 255, 255, 255, 255, 255>>

C8_Witness ==
    /\ LastIs("extract")
    /\ InGrammar(TrimmedHeader(Last))
    /\ SpanText(TrimmedHeader(Last)) = "18446744073709551617"
    /\ Last.result = Err("span_id")

\* C1: injecting a valid context into an empty carrier and extracting from that
\* carrier succeeds and gives back the trace id, the span id and the sampling
\* decision of the context, whatever trace flags the context carries.
C1_RoundTrip ==
    ( /\ Calls >= 2
      /\ hist[Calls - 1].op = "inject"
      /\ \A n \in HeaderNames : ~hist[Calls - 1].carrier_in[n].some
      /\ ~IsZero(SpanContextOf(hist[Calls - 1].cx_in).trace_id)
      /\ ~IsZero(SpanContextOf(hist[Calls - 1].cx_in).span_id)
      /\ Last.op = "extract" )
    => LET c == SpanContextOf(hist[Calls - 1].cx_in)
       IN  /\ Last.result.ok
           /\ Last.result.sc.trace_id = c.trace_id
           /\ Last.result.sc.span_id = c.span_id
           /\ IsSampled(Last.result.sc.trace_flags) = IsSampled(c.trace_flags)

\* C2: for a valid context inject_context writes exactly: the trace id as 32
\* lowercase hex digits, "/", the span id in decimal without padding, ";o=",
\* and "1" when the context is sampled, "0" when it is not.
C2_InjectedHeaderText ==
    ( /\ LastIs("inject")
      /\ ~IsZero(SpanContextOf(Last.cx_in).trace_id)
      /\ ~IsZero(SpanContextOf(Last.cx_in).span_id) )
    => LET c == SpanContextOf(Last.cx_in)
       IN  carrier[CLOUD_TRACE_CONTEXT_HEADER] =
               Some(HexOfBytes(Reverse(c.trace_id)) \o "/"
                    \o FormatDec(Reverse(c.span_id)) \o ";o="
                    \o (IF IsSampled(c.trace_flags) THEN "1" ELSE "0"))

\* C10: a header value that decodes is re-encoded by inject_context into a
\* value that decodes to the same trace id, span id and sampling decision,
\* and encoding that second result gives the same value again.
C10_CanonicalizationStable ==
    /\ ( /\ Calls >= 2
         /\ hist[Calls - 1].op = "extract" /\ hist[Calls - 1].result.ok
         /\ Last.op = "inject" )
       => /\ carrier[CLOUD_TRACE_CONTEXT_HEADER].some
          /\ InGrammar(carrier[CLOUD_TRACE_CONTEXT_HEADER].v)
    /\ ( /\ Calls >= 3
         /\ hist[Calls - 2].op = "extract" /\ hist[Calls - 2].result.ok
         /\ hist[Calls - 1].op = "inject"
         /\ Last.op = "extract" )
       => /\ Last.result.ok
          /\ Last.result.sc.trace_id = hist[Calls - 2].result.sc.trace_id
          /\ Last.result.sc.span_id = hist[Calls - 2].result.sc.span_id
          /\ IsSampled(Last.result.sc.trace_flags)
                = IsSampled(hist[Calls - 2].result.sc.trace_flags)
    /\ ( /\ Calls >= 4
         /\ hist[Calls - 3].op = "extract" /\ hist[Calls - 3].result.ok
         /\ hist[Calls - 2].op = "inject"
         /\ hist[Calls - 1].op = "extract"
         /\ Last.op = "inject" )
       => carrier = Last.carrier_in

C10_Witness ==
    /\ Calls >= 4
    /\ hist[Calls - 3].op = "extract" /\ hist[Calls - 3].result.ok
    /\ hist[Calls - 3].carrier_in[CLOUD_TRACE_CONTEXT_HEADER].v
          = " \t" \o BaseTrace \o "/007" \o " \r\n"
    /\ hist[Calls - 2].op = "inject"
    /\ hist[Calls - 1].op = "extract" /\ hist[Calls - 1].result.ok
    /\ Last.op = "inject"
    /\ carrier[CLOUD_TRACE_CONTEXT_HEADER] = Some(BaseTrace \o "/7;o=1")

\* What a call returns when it runs alone, from a freshly started process.
AloneExtract(t) == extract_with_context(th[t].cx, th[t].carrier, LazyForce(LazyNew).value.v)
AloneInject(t) == inject_context(th[t].cx, th[t].carrier)

C9_EveryState ==
    /\ inits <= 1
    /\ LazyIsComplete(regex_cell) =>
          regex_cell.value = Some(Some(GOOGLE_PROPAGATION_HEADER_VALUE_REGEX_STR))
    /\ \A t \in Threads :
          /\ th[t].pc = "match" =>
                th[t].seen = Some(Some(GOOGLE_PROPAGATION_HEADER_VALUE_REGEX_STR))
          /\ (th[t].pc = "done" /\ th[t].op = "extract") => th[t].ret_cx = AloneExtract(t)
          /\ (th[t].pc = "done" /\ th[t].op = "inject") => th[t].ret_carrier = AloneInject(t)

C9_EveryStep ==
    /\ inits' >= inits
    /\ regex_cell.state = "complete" => regex_cell' = regex_cell

\* C9: with threads calling extract and inject concurrently, in every
\* interleaving the pattern is initialized at most once, is never changed once
\* it is initialized, no call reads it before it is initialized, and every call
\* returns what it would return running alone on the same input.
C9_InitializedOnce == [](C9_EveryState) /\ [][C9_EveryStep]_vars

C9_Witness ==
    \E t1, t2 \in Threads :
        /\ t1 # t2
        /\ inits = 1
        /\ th[t1].pc = "done" /\ th[t1].op = "extract" /\ th[t1].ret_cx.has_span
        /\ th[t2].pc = "lazy_wait"

====
